---- MODULE Spec2Model ----
(***************************************************************************)
(* Model of tools/extract_sfx.py: the SFX extraction batch runner          *)
(* (extract_sfx, main), the hardware quiesce routine                       *)
(* (reset_sound_channels), the encoder probe (check_ffmpeg) and the        *)
(* silence trimmer (trim_silence).                                         *)
(*                                                                         *)
(* The emulated machine (PyBoy) and the encoder (ffmpeg) are external:     *)
(* a tick may let the game's sound engine mark the current effect as       *)
(* finished (wCurSfxID := 0x80), every sampled audio frame is either empty *)
(* or not, and every encoder run either exits 0 or not.                    *)
(***************************************************************************)
EXTENDS Integers, Sequences, FiniteSets, TLC

(* ------------------------------------------------------------------ *)
(* Bounds of the model                                                 *)
(* ------------------------------------------------------------------ *)

\* Number of rows of the catalog excerpt the runner iterates over.
NumEntries == 3

(* ------------------------------------------------------------------ *)
(* Program constants                                                   *)
(* ------------------------------------------------------------------ *)

ADDR_CUR_SFX_ID == 56706      \* 0xDD82
ADDR_SFX_PRIORITY == 56707    \* 0xDD83
ADDR_MUSIC_PAUSE == 56818     \* 0xDDF2

SAMPLE_RATE == 44100

ADDR_NR10 == 65296   \* 0xFF10
ADDR_NR11 == 65297   \* 0xFF11
ADDR_NR12 == 65298   \* 0xFF12
ADDR_NR13 == 65299   \* 0xFF13
ADDR_NR14 == 65300   \* 0xFF14
ADDR_NR21 == 65302   \* 0xFF16
ADDR_NR22 == 65303   \* 0xFF17
ADDR_NR23 == 65304   \* 0xFF18
ADDR_NR24 == 65305   \* 0xFF19
ADDR_NR30 == 65306   \* 0xFF1A
ADDR_NR31 == 65307   \* 0xFF1B
ADDR_NR32 == 65308   \* 0xFF1C
ADDR_NR33 == 65309   \* 0xFF1D
ADDR_NR34 == 65310   \* 0xFF1E
ADDR_NR41 == 65312   \* 0xFF20
ADDR_NR42 == 65313   \* 0xFF21
ADDR_NR43 == 65314   \* 0xFF22
ADDR_NR44 == 65315   \* 0xFF23
ADDR_NR50 == 65316   \* 0xFF24
ADDR_NR51 == 65317   \* 0xFF25
ADDR_NR52 == 65318   \* 0xFF26

\* The "finished" sentinel of wCurSfxID (0x80) and the maximum priority (0xFF).
SFX_FINISHED == 128
PRIORITY_MAX == 255

\* Tick counts of the runner's fixed waits.
BootTicks == 700
InitSettleTicks == 60
ClearTicks == 15
TailTicks == 15
\* frames_to_record = est_frames + RecordMargin
RecordMargin == 30
\* the early-exit test is `frame > EarlyExitAfter` (frame is 0-based)
EarlyExitAfter == 10

\* The sound registers of the machine.
SoundRegs ==
  { ADDR_NR10, ADDR_NR11, ADDR_NR12, ADDR_NR13, ADDR_NR14,
    ADDR_NR21, ADDR_NR22, ADDR_NR23, ADDR_NR24,
    ADDR_NR30, ADDR_NR31, ADDR_NR32, ADDR_NR33, ADDR_NR34,
    ADDR_NR41, ADDR_NR42, ADDR_NR43, ADDR_NR44,
    ADDR_NR50, ADDR_NR51, ADDR_NR52 }

\* The memory cells the runner reads or writes, plus the sound registers.
Cells == {ADDR_CUR_SFX_ID, ADDR_SFX_PRIORITY, ADDR_MUSIC_PAUSE} \cup SoundRegs

(* ------------------------------------------------------------------ *)
(* The catalog                                                         *)
(* ------------------------------------------------------------------ *)

\* Names are sequences of characters, so that the prefix test and the
\* file-name construction are computed, not assumed.
Name_cursor == <<"c","u","r","s","o","r">>
Name_unused_05 == <<"u","n","u","s","e","d","_","0","5">>
Name_single_hit == <<"s","i","n","g","l","e","_","h","i","t">>
Name_unused_5f == <<"u","n","u","s","e","d","_","5","f">>

\* Rows 0x01, 0x05, 0x16 and 0x5F of SFX_LIST, in catalog order.
SFX_LIST ==
  << [id |-> 1,  name |-> Name_cursor,     est |-> 15],
     [id |-> 5,  name |-> Name_unused_05,  est |-> 30],
     [id |-> 22, name |-> Name_single_hit, est |-> 30],
     [id |-> 95, name |-> Name_unused_5f,  est |-> 30] >>

\* The rows the runner iterates over in this model.
Catalog == SubSeq(SFX_LIST, 1, NumEntries)

\* str.startswith
startswith(s, p) == Len(s) >= Len(p) /\ SubSeq(s, 1, Len(p)) = p

UnusedPrefix == <<"u","n","u","s","e","d">>

\* Mp3Name with the intermediate file's extension
Mp3NameWav(name) == name \o <<".","w","a","v">>

\* f'{sfx_name}.mp3' and f'{sfx_name}.wav'
Mp3Name(name) == name \o <<".","m","p","3">>
WavName(name) == name \o <<".","w","a","v">>

(* ------------------------------------------------------------------ *)
(* The machine                                                         *)
(* ------------------------------------------------------------------ *)

\* pyboy.memory[addr] = val
MemWrite(m, addr, val) == [m EXCEPT ![addr] = val]

OpWrite(addr, val) == <<"write", addr, val>>
OpTick == <<"tick">>

\* The writes of reset_sound_channels, in program order.
ResetWrites ==
  << <<ADDR_NR12, 0>>, <<ADDR_NR22, 0>>, <<ADDR_NR42, 0>>,
     <<ADDR_NR30, 0>>,
     <<ADDR_NR14, 128>>, <<ADDR_NR24, 128>>, <<ADDR_NR44, 128>>,
     <<ADDR_NR10, 0>>, <<ADDR_NR11, 0>>, <<ADDR_NR21, 0>>,
     <<ADDR_NR50, 119>>, <<ADDR_NR51, 255>> >>

RECURSIVE ApplyWrites(_, _)
ApplyWrites(m, ws) ==
  IF ws = <<>> THEN m
  ELSE ApplyWrites(MemWrite(m, Head(ws)[1], Head(ws)[2]), Tail(ws))

\* reset_sound_channels setting the restart bits by read-modify-write
\* (toggling bit 7) and also switching the master enable NR52 on
reset_sound_channels_toggle(m) ==
  LET r == ApplyWrites(m, ResetWrites) IN
  [r EXCEPT ![ADDR_NR14] = (m[ADDR_NR14] + 128) % 256,
            ![ADDR_NR52] = 128]

\* reset_sound_channels(pyboy): the memory after the routine.
reset_sound_channels(m) == ApplyWrites(m, ResetWrites)

\* The machine operations reset_sound_channels issues.
ResetOps == [i \in 1..Len(ResetWrites) |-> OpWrite(ResetWrites[i][1], ResetWrites[i][2])]

\* pyboy.tick(): the game's sound engine may mark the effect as finished.
Tick(m) == {m, MemWrite(m, ADDR_CUR_SFX_ID, SFX_FINISHED)}

\* Memory of a freshly started machine.
PowerOn == [a \in Cells |-> 0]

(* ------------------------------------------------------------------ *)
(* check_ffmpeg                                                        *)
(* ------------------------------------------------------------------ *)

\* What the probe can meet: ffmpeg on the search path or not, the exit code
\* of `ffmpeg -version`, and whether ~/bin/ffmpeg exists.
Probes == [on_path : BOOLEAN, rc : {0, 1}, fallback : BOOLEAN]

check_ffmpeg(p) ==
  IF p.on_path THEN p.rc = 0 ELSE p.fallback

(* ------------------------------------------------------------------ *)
(* trim_silence                                                        *)
(* ------------------------------------------------------------------ *)

\* A sample buffer (an N x 2 array of int8) is its length and its frames
\* that are not <<0, 0>>: frames is a function from a finite set of 0-based
\* indices to <<left, right>>; every other frame of the buffer is <<0, 0>>.
FrameAt(b, i) == IF i \in DOMAIN b.frames THEN b.frames[i] ELSE <<0, 0>>

Max(a, b) == IF a >= b THEN a ELSE b
Min(a, b) == IF a <= b THEN a ELSE b
SetMin(S) == CHOOSE x \in S : \A y \in S : x <= y
SetMax(S) == CHOOSE x \in S : \A y \in S : x >= y

\* np.abs on an int8 value: -(-128) wraps to -128
Abs8(x) == IF x = -128 THEN -128 ELSE IF x < 0 THEN -x ELSE x

\* np.abs(samples).max(axis=1), for one frame
Peak(frame) == Max(Abs8(frame[1]), Abs8(frame[2]))

\* samples[lo:hi] for 0 <= lo, 0 <= hi (Python clamps both to the length)
Slice(b, lo, hi) ==
  LET l == Min(lo, b.len)
      h == Max(l, Min(hi, b.len))
      kept == {k \in DOMAIN b.frames : l <= k /\ k < h}
  IN [len |-> h - l, frames |-> [i \in {k - l : k \in kept} |-> b.frames[i + l]]]

\* the 100 frames kept before the first sound
PreRoll == 100
\* the divisor of SAMPLE_RATE // 4, the frames kept after the last sound
TailDivisor == 4
\* defaults of trim_silence's threshold and min_samples
DefaultThreshold == 2
DefaultMinSamples == 1000

\* np.where(abs_samples > threshold)[0], for threshold >= 0
non_silent(b, thr) == {i \in DOMAIN b.frames : Peak(b.frames[i]) > thr}

\* trim_silence without the fallback to the minimum-length prefix
trim_silence_no_fallback(b, thr, minlen) ==
  LET ns == non_silent(b, thr) IN
  IF ns = {} THEN Slice(b, 0, minlen)
  ELSE LET start == Max(0, SetMin(ns) - PreRoll)
           end == Min(b.len, SetMax(ns) + SAMPLE_RATE \div TailDivisor)
       IN Slice(b, start, end)

\* trim_silence cutting at the last loud frame, without the 0.25 s kept after it
trim_silence_no_tail(b, thr, minlen) ==
  LET ns == non_silent(b, thr) IN
  IF ns = {} THEN Slice(b, 0, minlen)
  ELSE LET start == Max(0, SetMin(ns) - PreRoll)
           end == Min(b.len, SetMax(ns))
           result == Slice(b, start, end)
       IN IF result.len < minlen THEN Slice(b, 0, minlen) ELSE result

trim_silence(b, thr, minlen) ==
  LET ns == non_silent(b, thr) IN
  IF ns = {} THEN Slice(b, 0, minlen)
  ELSE LET start == Max(0, SetMin(ns) - PreRoll)
           end == Min(b.len, SetMax(ns) + SAMPLE_RATE \div TailDivisor)
           result == Slice(b, start, end)
       IN IF result.len < minlen THEN Slice(b, 0, minlen) ELSE result

(* ------------------------------------------------------------------ *)
(* State of one run of main() -> extract_sfx()                         *)
(* ------------------------------------------------------------------ *)

VARIABLES
  pc,              \* position in main / extract_sfx
  skip_unused,     \* the --skip-unused argument
  pyboy,           \* "none", "running" or "stopped"
  mem,             \* the machine's memory cells
  idx,             \* 1-based index of the catalog row of the for loop
  n,               \* loop counter of the tick loop in progress
  ticks,           \* ticks advanced in the current row's collect phase
  all_samples,     \* number of chunks in the accumulator
  ops,             \* machine operations issued outside the collect loop
                   \* since the current row began (or since the start)
  triggered,       \* ids written to wCurSfxID as triggers, in order
  extracted_count, \* extracted_count
  failed,          \* failed (list of names)
  succeeded,       \* names counted in extracted_count, in order
  skipped,         \* names passed over by the skip test, in order
  wavs,            \* intermediate .wav files written
  encoded,         \* names the encoder was invoked for, in order
  files,           \* .mp3 files produced in the output directory
  temp_dir,        \* whether <output>/.temp exists
  success,         \* value returned by extract_sfx
  error,           \* the fatal error printed: "none", "rom" or "ffmpeg"
  exit_code,       \* process exit code (-1 while running)
  \* trim_silence applied to a buffer, and to its own result
  samples,         \* the input buffer
  threshold,       \* the threshold argument
  min_samples,     \* the min_samples argument
  trimmed,         \* trim_silence(samples)
  retrimmed,       \* trim_silence(trimmed)
  trim_calls,      \* number of applications so far
  \* reset_sound_channels applied to a register file, twice
  regs,            \* the sound registers
  regs_before,     \* the registers before the first application
  regs_once,       \* the registers after the first application
  resets,          \* number of applications so far
  game_writes      \* register writes by the game before the first one

vars == << pc, skip_unused, pyboy, mem, idx, n, ticks, all_samples, ops,
           triggered, extracted_count, failed, succeeded, skipped, wavs,
           encoded, files, temp_dir, success, error, exit_code >>

machine == << pyboy, mem, ops, ticks, triggered >>
trimvars == << samples, threshold, min_samples, trimmed, retrimmed, trim_calls >>
quiescevars == << regs, regs_before, regs_once, resets, game_writes >>
others == << trimvars, quiescevars >>
allvars == << vars, trimvars, quiescevars >>
report == << extracted_count, failed, succeeded, skipped >>
outputs == << wavs, encoded, files >>

Row == Catalog[idx]

EmptyBuffer == [len |-> 0, frames |-> << >>]

TrimIdle ==
  /\ samples = EmptyBuffer
  /\ threshold = DefaultThreshold
  /\ min_samples = DefaultMinSamples
  /\ trimmed = EmptyBuffer
  /\ retrimmed = EmptyBuffer
  /\ trim_calls = 0

QuiesceIdle ==
  /\ regs = [a \in SoundRegs |-> 0]
  /\ regs_before = regs
  /\ regs_once = regs
  /\ resets = 0
  /\ game_writes = 0

Init ==
  /\ TrimIdle
  /\ QuiesceIdle
  /\ pc = "check_rom"
  /\ skip_unused \in BOOLEAN
  /\ pyboy = "none"
  /\ mem = PowerOn
  /\ idx = 1
  /\ n = 0
  /\ ticks = 0
  /\ all_samples = 0
  /\ ops = <<>>
  /\ triggered = <<>>
  /\ extracted_count = 0
  /\ failed = <<>>
  /\ succeeded = <<>>
  /\ skipped = <<>>
  /\ wavs = {}
  /\ encoded = <<>>
  /\ files = {}
  /\ temp_dir = FALSE
  /\ success = FALSE
  /\ error = "none"
  /\ exit_code = -1

(* ------------------------------------------------------------------ *)
(* Preconditions                                                       *)
(* ------------------------------------------------------------------ *)

\* CheckRom without its `return False`: the error is printed and the run goes on
CheckRomNoReturn ==
  /\ pc = "check_rom"
  /\ \E rom_exists \in BOOLEAN :
       IF rom_exists
       THEN UNCHANGED error
       ELSE error' = "rom"
  /\ pc' = "check_ffmpeg"
  /\ UNCHANGED << skip_unused, idx, n, all_samples, temp_dir, success, exit_code >>
  /\ UNCHANGED << machine, report, outputs, others >>

\* if not os.path.exists(rom_path): return False
CheckRom ==
  /\ UNCHANGED others
  /\ pc = "check_rom"
  /\ \E rom_exists \in BOOLEAN :
       IF rom_exists
       THEN pc' = "check_ffmpeg" /\ UNCHANGED << success, error >>
       ELSE pc' = "returned" /\ success' = FALSE /\ error' = "rom"
  /\ UNCHANGED << skip_unused, idx, n, all_samples, temp_dir, exit_code >>
  /\ UNCHANGED << machine, report, outputs >>

\* if not check_ffmpeg(): return False
CheckFfmpeg ==
  /\ UNCHANGED others
  /\ pc = "check_ffmpeg"
  /\ \E p \in Probes :
       IF check_ffmpeg(p)
       THEN pc' = "start" /\ UNCHANGED << success, error >>
       ELSE pc' = "returned" /\ success' = FALSE /\ error' = "ffmpeg"
  /\ UNCHANGED << skip_unused, idx, n, all_samples, temp_dir, exit_code >>
  /\ UNCHANGED << machine, report, outputs >>

(* ------------------------------------------------------------------ *)
(* Initialization                                                      *)
(* ------------------------------------------------------------------ *)

\* os.makedirs(output_dir), os.makedirs(temp_dir), PyBoy(...)
StartMachine ==
  /\ UNCHANGED << others, error >>
  /\ pc = "start"
  /\ temp_dir' = TRUE
  /\ pyboy' = "running"
  /\ mem' = PowerOn
  /\ n' = 0
  /\ pc' = "boot"
  /\ UNCHANGED << skip_unused, idx, all_samples, success, exit_code,
                  ops, ticks, triggered >>
  /\ UNCHANGED << report, outputs >>

\* for _ in range(700): pyboy.tick()
BootTick ==
  /\ UNCHANGED << others, error >>
  /\ pc = "boot"
  /\ mem' \in Tick(mem)
  /\ ops' = Append(ops, OpTick)
  /\ n' = IF n + 1 < BootTicks THEN n + 1 ELSE 0
  /\ pc' = IF n + 1 < BootTicks THEN "boot" ELSE "init_pause"
  /\ UNCHANGED << skip_unused, pyboy, idx, all_samples, temp_dir, success,
                  exit_code, ticks, triggered >>
  /\ UNCHANGED << report, outputs >>

\* pyboy.memory[ADDR_MUSIC_PAUSE] = 1; reset_sound_channels(pyboy)
InitQuiesce ==
  /\ UNCHANGED << others, error >>
  /\ pc = "init_pause"
  /\ mem' = reset_sound_channels(MemWrite(mem, ADDR_MUSIC_PAUSE, 1))
  /\ ops' = Append(ops, OpWrite(ADDR_MUSIC_PAUSE, 1)) \o ResetOps
  /\ pc' = "init_settle"
  /\ UNCHANGED << skip_unused, pyboy, idx, n, all_samples, temp_dir, success,
                  exit_code, ticks, triggered >>
  /\ UNCHANGED << report, outputs >>

\* for _ in range(60): pyboy.tick()
InitSettleTick ==
  /\ UNCHANGED << others, error >>
  /\ pc = "init_settle"
  /\ mem' \in Tick(mem)
  /\ ops' = Append(ops, OpTick)
  /\ n' = IF n + 1 < InitSettleTicks THEN n + 1 ELSE 0
  /\ pc' = IF n + 1 < InitSettleTicks THEN "init_settle" ELSE "loop"
  /\ UNCHANGED << skip_unused, pyboy, idx, all_samples, temp_dir, success,
                  exit_code, ticks, triggered >>
  /\ UNCHANGED << report, outputs >>

(* ------------------------------------------------------------------ *)
(* The per-row extraction loop                                         *)
(* ------------------------------------------------------------------ *)

\* SkipTest ignoring the flag
SkipTestNoFlag(flag, name) == startswith(name, UnusedPrefix)

\* if skip_unused and sfx_name.startswith('unused'): continue
SkipTest(flag, name) == flag /\ startswith(name, UnusedPrefix)

\* pyboy.memory[ADDR_CUR_SFX_ID] = 0x80; pyboy.memory[ADDR_SFX_PRIORITY] = 0x00
ClearWrites ==
  << <<ADDR_CUR_SFX_ID, SFX_FINISHED>>, <<ADDR_SFX_PRIORITY, 0>> >>

\* TriggerWrites with the id written before the priority
TriggerWritesIdFirst(sfx_id) ==
  << <<ADDR_CUR_SFX_ID, sfx_id>>, <<ADDR_SFX_PRIORITY, PRIORITY_MAX>> >>

\* pyboy.memory[ADDR_SFX_PRIORITY] = 0xFF; pyboy.memory[ADDR_CUR_SFX_ID] = sfx_id
TriggerWrites(sfx_id) ==
  << <<ADDR_SFX_PRIORITY, PRIORITY_MAX>>, <<ADDR_CUR_SFX_ID, sfx_id>> >>

WriteOps(ws) == [i \in 1..Len(ws) |-> OpWrite(ws[i][1], ws[i][2])]

\* frames_to_record = est_frames + 30
frames_to_record(est) == est + RecordMargin

\* EarlyExit testing `frame >= 10`
EarlyExitFromTen(frame, m) ==
  frame >= EarlyExitAfter /\ m[ADDR_CUR_SFX_ID] = SFX_FINISHED

\* if frame > 10 and pyboy.memory[ADDR_CUR_SFX_ID] == 0x80
EarlyExit(frame, m) == frame > EarlyExitAfter /\ m[ADDR_CUR_SFX_ID] = SFX_FINISHED

\* all_samples = []
NewAccumulator(old) == 0

\* all_samples.append(sound_arr) when len(sound_arr) > 0
Sample(acc, nonempty) == IF nonempty THEN acc + 1 ELSE acc

\* HasAudio without the emptiness test
HasAudioAlways(acc) == TRUE

\* `if not all_samples` is false
HasAudio(acc) == acc > 0

\* NextRow staying on the row (a retry)
NextRowRetry(i) == i

\* the row the for loop moves to after a row is done (`continue`, or the end
\* of the loop body)
NextRow(i) == i + 1

\* the for loop passes over a row
SkipEntry ==
  /\ UNCHANGED << others, error >>
  /\ pc = "loop"
  /\ idx <= Len(Catalog)
  /\ SkipTest(skip_unused, Row.name)
  /\ skipped' = Append(skipped, Row.name)
  /\ idx' = NextRow(idx)
  /\ UNCHANGED << pc, skip_unused, n, all_samples, temp_dir, success, exit_code,
                  extracted_count, failed, succeeded >>
  /\ UNCHANGED << machine, outputs >>

\* pyboy.memory[ADDR_MUSIC_PAUSE] = 1
ReassertPause ==
  /\ UNCHANGED << others, error >>
  /\ pc = "loop"
  /\ idx <= Len(Catalog)
  /\ ~SkipTest(skip_unused, Row.name)
  /\ mem' = MemWrite(mem, ADDR_MUSIC_PAUSE, 1)
  /\ ops' = << OpWrite(ADDR_MUSIC_PAUSE, 1) >>
  /\ pc' = "reset"
  /\ UNCHANGED << skip_unused, pyboy, idx, n, all_samples, temp_dir, success,
                  exit_code, ticks, triggered >>
  /\ UNCHANGED << report, outputs >>

\* reset_sound_channels(pyboy)
ResetChannels ==
  /\ UNCHANGED << others, error >>
  /\ pc = "reset"
  /\ mem' = reset_sound_channels(mem)
  /\ ops' = ops \o ResetOps
  /\ pc' = "clear"
  /\ UNCHANGED << skip_unused, pyboy, idx, n, all_samples, temp_dir, success,
                  exit_code, ticks, triggered >>
  /\ UNCHANGED << report, outputs >>

\* mark the previous effect as finished and zero the priority
ClearSfx ==
  /\ UNCHANGED << others, error >>
  /\ pc = "clear"
  /\ mem' = ApplyWrites(mem, ClearWrites)
  /\ ops' = ops \o WriteOps(ClearWrites)
  /\ n' = 0
  /\ pc' = "settle"
  /\ UNCHANGED << skip_unused, pyboy, idx, all_samples, temp_dir, success,
                  exit_code, ticks, triggered >>
  /\ UNCHANGED << report, outputs >>

\* for _ in range(15): pyboy.tick()
SettleTick ==
  /\ UNCHANGED << others, error >>
  /\ pc = "settle"
  /\ mem' \in Tick(mem)
  /\ ops' = Append(ops, OpTick)
  /\ n' = IF n + 1 < ClearTicks THEN n + 1 ELSE 0
  /\ pc' = IF n + 1 < ClearTicks THEN "settle" ELSE "trigger"
  /\ UNCHANGED << skip_unused, pyboy, idx, all_samples, temp_dir, success,
                  exit_code, ticks, triggered >>
  /\ UNCHANGED << report, outputs >>

\* all_samples = []; then the two trigger writes
Trigger ==
  /\ UNCHANGED << others, error >>
  /\ pc = "trigger"
  /\ all_samples' = NewAccumulator(all_samples)
  /\ mem' = ApplyWrites(mem, TriggerWrites(Row.id))
  /\ ops' = ops \o WriteOps(TriggerWrites(Row.id))
  /\ triggered' = Append(triggered, mem'[ADDR_CUR_SFX_ID])
  /\ n' = 0
  /\ ticks' = 0
  /\ pc' = "collect"
  /\ UNCHANGED << skip_unused, pyboy, idx, temp_dir, success, exit_code >>
  /\ UNCHANGED << report, outputs >>

\* one iteration of `for frame in range(frames_to_record)`, up to the
\* early-exit test; n is `frame`
CollectFrame ==
  /\ UNCHANGED << others, error >>
  /\ pc = "collect"
  /\ n < frames_to_record(Row.est)
  /\ mem' \in Tick(mem)
  /\ ticks' = ticks + 1
  /\ \E nonempty \in BOOLEAN : all_samples' = Sample(all_samples, nonempty)
  /\ IF EarlyExit(n, mem')
     THEN pc' = "tail" /\ n' = 0
     ELSE IF n + 1 < frames_to_record(Row.est)
          THEN pc' = "collect" /\ n' = n + 1
          ELSE pc' = "post" /\ n' = 0
  /\ UNCHANGED << skip_unused, pyboy, idx, temp_dir, success, exit_code,
                  ops, triggered >>
  /\ UNCHANGED << report, outputs >>

\* one iteration of the tail loop `for _ in range(15)`, then `break`
TailFrame ==
  /\ UNCHANGED << others, error >>
  /\ pc = "tail"
  /\ mem' \in Tick(mem)
  /\ ticks' = ticks + 1
  /\ \E nonempty \in BOOLEAN : all_samples' = Sample(all_samples, nonempty)
  /\ n' = IF n + 1 < TailTicks THEN n + 1 ELSE 0
  /\ pc' = IF n + 1 < TailTicks THEN "tail" ELSE "post"
  /\ UNCHANGED << skip_unused, pyboy, idx, temp_dir, success, exit_code,
                  ops, triggered >>
  /\ UNCHANGED << report, outputs >>

\* if not all_samples: failed.append(sfx_name); continue
NoAudio ==
  /\ UNCHANGED << others, error >>
  /\ pc = "post"
  /\ ~HasAudio(all_samples)
  /\ failed' = Append(failed, Row.name)
  /\ idx' = NextRow(idx)
  /\ ticks' = 0
  /\ pc' = "loop"
  /\ UNCHANGED << skip_unused, pyboy, mem, n, all_samples, temp_dir, success,
                  exit_code, ops, triggered, extracted_count, succeeded, skipped >>
  /\ UNCHANGED outputs

\* vstack, trim_silence, samples_to_wav, wav_to_mp3 and the bookkeeping of
\* its result; rc is the encoder's exit code
Encode ==
  /\ UNCHANGED << others, error >>
  /\ pc = "post"
  /\ HasAudio(all_samples)
  /\ wavs' = wavs \cup {WavName(Row.name)}
  /\ encoded' = Append(encoded, Row.name)
  /\ \E rc \in {0, 1} :
       IF rc = 0
       THEN /\ files' = files \cup {Mp3Name(Row.name)}
            /\ extracted_count' = extracted_count + 1
            /\ succeeded' = Append(succeeded, Row.name)
            /\ UNCHANGED failed
       ELSE /\ failed' = Append(failed, Row.name)
            /\ UNCHANGED << files, extracted_count, succeeded >>
  /\ idx' = NextRow(idx)
  /\ ticks' = 0
  /\ pc' = "loop"
  /\ UNCHANGED << skip_unused, pyboy, mem, n, all_samples, temp_dir, success,
                  exit_code, ops, triggered, skipped >>

(* ------------------------------------------------------------------ *)
(* End of the run                                                      *)
(* ------------------------------------------------------------------ *)

\* ReturnValue true of an empty report
ReturnValueNonNegative(count) == count >= 0

\* return extracted_count > 0
ReturnValue(count) == count > 0

\* sys.exit(0 if success else 1)
ExitCode(ok) == IF ok THEN 0 ELSE 1

\* pyboy.stop(); shutil.rmtree(temp_dir); return extracted_count > 0
Finish ==
  /\ UNCHANGED << others, error >>
  /\ pc = "loop"
  /\ idx > Len(Catalog)
  /\ pyboy' = "stopped"
  /\ temp_dir' = FALSE
  /\ success' = ReturnValue(extracted_count)
  /\ pc' = "returned"
  /\ UNCHANGED << skip_unused, mem, idx, n, all_samples, exit_code, ops, ticks,
                  triggered >>
  /\ UNCHANGED << report, outputs >>

\* main: sys.exit(0 if success else 1)
Exit ==
  /\ UNCHANGED << others, error >>
  /\ pc = "returned"
  /\ exit_code' = ExitCode(success)
  /\ pc' = "exited"
  /\ UNCHANGED << skip_unused, idx, n, all_samples, temp_dir, success >>
  /\ UNCHANGED << machine, report, outputs >>

Next ==
  \/ CheckRom \/ CheckFfmpeg
  \/ StartMachine \/ BootTick \/ InitQuiesce \/ InitSettleTick
  \/ SkipEntry \/ ReassertPause \/ ResetChannels \/ ClearSfx \/ SettleTick
  \/ Trigger \/ CollectFrame \/ TailFrame \/ NoAudio \/ Encode
  \/ Finish \/ Exit

Spec == Init /\ [][Next]_allvars

(* ------------------------------------------------------------------ *)
(* trim_silence on bounded inputs                                      *)
(* ------------------------------------------------------------------ *)

\* Largest number of frames of an input buffer that are not <<0, 0>>.
MaxMarked == 2

\* Buffer lengths around one tick's chunk (735), min_samples and the window.
BufferLens == {735, 999, 1000, 1001, 1500, 1890, 12000, 12200}

\* Frame indices around the 100-frame lead, min_samples and the 0.25 s tail.
MarkPositions == {0, 99, 100, 101, 850, 950, 999, 1000, 1100, 1499, 1889, 11999}

\* Frames on both sides of the threshold, and the int8 minimum.
FrameVals == { <<3, 0>>, <<0, -3>>, <<2, -2>>, <<-128, 0>>, <<127, -128>> }

\* The arguments tried: the defaults and one other value of each.
Thresholds == {DefaultThreshold, DefaultThreshold + 1}
MinLens == {DefaultMinSamples, DefaultMinSamples + 100}

\* The buffers of length l whose frames at the positions P are f and whose
\* other frames are <<0, 0>>.
InputBuffer(l, f) == [len |-> l, frames |-> f]

RunnerIdle ==
  /\ pc = "idle"
  /\ skip_unused = FALSE
  /\ pyboy = "none"
  /\ mem = PowerOn
  /\ idx = 1
  /\ n = 0
  /\ ticks = 0
  /\ all_samples = 0
  /\ ops = <<>>
  /\ triggered = <<>>
  /\ extracted_count = 0
  /\ failed = <<>>
  /\ succeeded = <<>>
  /\ skipped = <<>>
  /\ wavs = {}
  /\ encoded = <<>>
  /\ files = {}
  /\ temp_dir = FALSE
  /\ success = FALSE
  /\ error = "none"
  /\ exit_code = -1

TrimInit ==
  /\ RunnerIdle
  /\ QuiesceIdle
  /\ \E l \in BufferLens :
       \E P \in SUBSET {q \in MarkPositions : q < l} :
         /\ Cardinality(P) <= MaxMarked
         /\ \E f \in [P -> FrameVals] : samples = InputBuffer(l, f)
  /\ threshold \in Thresholds
  /\ min_samples \in MinLens
  /\ trimmed = EmptyBuffer
  /\ retrimmed = EmptyBuffer
  /\ trim_calls = 0

\* audio_data = trim_silence(audio_data)
TrimOnce ==
  /\ trim_calls = 0
  /\ trimmed' = trim_silence(samples, threshold, min_samples)
  /\ trim_calls' = 1
  /\ UNCHANGED << samples, threshold, min_samples, retrimmed >>
  /\ UNCHANGED << vars, quiescevars >>

\* trim_silence applied to its own result
TrimAgain ==
  /\ trim_calls = 1
  /\ retrimmed' = trim_silence(trimmed, threshold, min_samples)
  /\ trim_calls' = 2
  /\ UNCHANGED << samples, threshold, min_samples, trimmed >>
  /\ UNCHANGED << vars, quiescevars >>

TrimNext == TrimOnce \/ TrimAgain

SpecTrim == TrimInit /\ [][TrimNext]_allvars

(* ------------------------------------------------------------------ *)
(* reset_sound_channels on bounded register files                      *)
(* ------------------------------------------------------------------ *)

\* Largest number of registers the game has written before the routine runs.
MaxGameWrites == 2

\* Register values: zero, the restart bit, full volume, all ones.
RegVals == {0, 128, 119, 255}

QuiesceInit ==
  /\ RunnerIdle
  /\ TrimIdle
  /\ \E v \in RegVals : regs = [a \in SoundRegs |-> v]
  /\ regs_before = regs
  /\ regs_once = regs
  /\ resets = 0
  /\ game_writes = 0

\* the game's sound engine writes a register while an effect plays
GameWrite ==
  /\ resets = 0
  /\ game_writes < MaxGameWrites
  /\ \E a \in SoundRegs, v \in RegVals : regs' = MemWrite(regs, a, v)
  /\ regs_before' = regs'
  /\ regs_once' = regs'
  /\ game_writes' = game_writes + 1
  /\ UNCHANGED resets
  /\ UNCHANGED << vars, trimvars >>

\* reset_sound_channels(pyboy)
QuiesceOnce ==
  /\ resets = 0
  /\ regs' = reset_sound_channels(regs)
  /\ regs_before' = regs
  /\ regs_once' = regs'
  /\ resets' = 1
  /\ UNCHANGED game_writes
  /\ UNCHANGED << vars, trimvars >>

\* reset_sound_channels(pyboy) again, with no tick in between
QuiesceAgain ==
  /\ resets = 1
  /\ regs' = reset_sound_channels(regs)
  /\ resets' = 2
  /\ UNCHANGED << regs_before, regs_once, game_writes >>
  /\ UNCHANGED << vars, trimvars >>

QuiesceNext == GameWrite \/ QuiesceOnce \/ QuiesceAgain

SpecQuiesce == QuiesceInit /\ [][QuiesceNext]_allvars

(* ------------------------------------------------------------------ *)
(* Properties of the runner (specification Spec)                       *)
(* ------------------------------------------------------------------ *)

Returned == pc \in {"returned", "exited"}

\* the rows the skip test passes over, and the others
IsSkipped(row) == skip_unused /\ startswith(row.name, <<"u","n","u","s","e","d">>)
Range(seq) == {seq[i] : i \in 1..Len(seq)}
Occurrences(seq, x) == Cardinality({i \in 1..Len(seq) : seq[i] = x})

\* C1: the value returned by extract_sfx is true, and the exit code is 0,
\* exactly when at least one effect was recorded as extracted; otherwise
\* (fatal error, or every row skipped or failed) it is false and the code is 1.
C1_ExitIffExtracted ==
  /\ Returned => (success <=> succeeded # <<>>)
  /\ Returned /\ error # "none" => ~success
  /\ pc = "exited" => /\ exit_code \in {0, 1}
                      /\ exit_code = 0 <=> succeeded # <<>>
  /\ pc # "exited" => exit_code = -1

\* a run that exits 0 although one row failed
C1_Witness ==
  pc = "exited" /\ exit_code = 0 /\ failed # <<>> /\ succeeded # <<>>

\* C2 as stated: after a run that passed the precondition checks, every row
\* that the skip test did not pass over has its <name>.mp3 in the output
\* directory.
C2_FileForEveryRow ==
  Returned /\ error = "none" =>
    \A i \in 1..Len(Catalog) :
      ~IsSkipped(Catalog[i]) =>
        (Catalog[i].name \o <<".","m","p","3">>) \in files

\* C2 amended: after a run that passed the precondition checks, every row
\* that was neither passed over by the skip test nor recorded as failed has
\* its <name>.mp3 in the output directory, and every file produced is the
\* <name>.mp3 of such a row.
C2_FileForEverySucceededRow ==
  Returned /\ error = "none" =>
    /\ \A i \in 1..Len(Catalog) :
         ~IsSkipped(Catalog[i]) /\ Catalog[i].name \notin Range(failed) =>
           (Catalog[i].name \o <<".","m","p","3">>) \in files
    /\ \A f \in files :
         \E i \in 1..Len(Catalog) :
           /\ f = Catalog[i].name \o <<".","m","p","3">>
           /\ ~IsSkipped(Catalog[i])
           /\ Catalog[i].name \notin Range(failed)

\* a finished run with a skipped row, a failed row and a produced file
C2_Witness ==
  pc = "exited" /\ skipped # <<>> /\ failed # <<>> /\ files # {}

\* C3: a row whose accumulator is empty when collection ends is recorded as
\* failed; no waveform is written, the encoder is not invoked, the machine is
\* not touched, the row is not triggered again and the loop moves to the
\* next row.
C3_EmptyAccumulatorFails ==
  [][ (pc = "post" /\ all_samples = 0) =>
        /\ failed' = Append(failed, Catalog[idx].name)
        /\ wavs' = wavs
        /\ encoded' = encoded
        /\ files' = files
        /\ extracted_count' = extracted_count
        /\ succeeded' = succeeded
        /\ triggered' = triggered
        /\ mem' = mem
        /\ idx' = idx + 1
        /\ pc' = "loop" ]_allvars

\* the first row failed with no audio and the second row has been triggered
C3_Witness ==
  /\ failed = << Name_cursor >>
  /\ encoded = <<>>
  /\ wavs = {}
  /\ triggered = << 1, 5 >>

\* the rows before i, without the skipped ones
RECURSIVE Processed(_)
Processed(i) ==
  IF i = 0 THEN <<>>
  ELSE IF IsSkipped(Catalog[i]) THEN Processed(i - 1)
       ELSE Append(Processed(i - 1), Catalog[i])

\* C4: whatever the outcomes of earlier rows, every row that is not skipped
\* is triggered exactly once, in catalog order, and recorded exactly once,
\* as succeeded or as failed; the counts add up to the catalog size and the
\* failed list holds exactly the rows that did not succeed.
C4_EveryRowOnce ==
  /\ extracted_count = Len(succeeded)
  /\ Range(succeeded) \cap Range(failed) = {}
  /\ pc = "loop" \/ (Returned /\ error = "none") =>
       LET done == Processed(idx - 1) IN
       /\ triggered = [i \in 1..Len(done) |-> done[i].id]
       /\ extracted_count + Len(failed) + Len(skipped) = idx - 1
       /\ \A i \in 1..Len(done) :
            Occurrences(succeeded, done[i].name)
              + Occurrences(failed, done[i].name) = 1
       /\ failed = SelectSeq([i \in 1..Len(done) |-> done[i].name],
                             LAMBDA x : x \notin Range(succeeded))
  /\ Returned /\ error = "none" =>
       /\ idx = Len(Catalog) + 1
       /\ extracted_count + Len(failed) + Len(skipped) = Len(Catalog)

\* a finished run where a row succeeded after a failure and before another
C4_Witness ==
  /\ pc = "exited"
  /\ failed = << Name_cursor, Name_single_hit >>
  /\ succeeded = << Name_unused_05 >>

\* C5: with skip-unused set, a row tagged 'unused' is passed over in one
\* step that touches neither the machine nor the encoder nor the report nor
\* the output; with skip-unused not set, the same row starts its extraction
\* like any other (the pause flag is written).
C5_SkipDoesNothing ==
  [][ (pc = "loop" /\ idx <= Len(Catalog)
         /\ startswith(Catalog[idx].name, <<"u","n","u","s","e","d">>)) =>
        IF skip_unused
        THEN /\ UNCHANGED << pyboy, mem, ops, ticks, triggered, all_samples >>
             /\ UNCHANGED << wavs, encoded, files >>
             /\ UNCHANGED << extracted_count, failed, succeeded >>
             /\ idx' = idx + 1
             /\ pc' = "loop"
        ELSE /\ pc' = "reset"
             /\ idx' = idx
             /\ ops' = << <<"write", ADDR_MUSIC_PAUSE, 1>> >>
             /\ mem' = [mem EXCEPT ![ADDR_MUSIC_PAUSE] = 1] ]_allvars

\* the row between two extracted rows was skipped
C5_Witness ==
  /\ skip_unused
  /\ skipped = << Name_unused_05 >>
  /\ triggered = << 1, 22 >>
  /\ pc = "collect"

\* C6: a run that reports a missing ROM or a missing encoder has started no
\* machine, issued no machine operation, written no file, invoked no encoder
\* and recorded no row, and returns failure.
C6_FatalBeforeMachine ==
  error # "none" =>
    /\ Returned
    /\ ~success
    /\ pyboy = "none"
    /\ mem = PowerOn
    /\ ops = <<>>
    /\ ticks = 0
    /\ triggered = <<>>
    /\ all_samples = 0
    /\ wavs = {} /\ encoded = <<>> /\ files = {}
    /\ extracted_count = 0 /\ failed = <<>> /\ succeeded = <<>> /\ skipped = <<>>
    /\ ~temp_dir

\* the ROM exists, the encoder does not, and the process has exited with 1
C6_Witness ==
  pc = "exited" /\ error = "ffmpeg" /\ exit_code = 1

\* the machine operations of one row up to its trigger, as the claim lists them
ExpectedOps(sfx_id) ==
  << <<"write", ADDR_MUSIC_PAUSE, 1>> >>
  \o ResetOps
  \o << <<"write", ADDR_CUR_SFX_ID, 128>>, <<"write", ADDR_SFX_PRIORITY, 0>> >>
  \o [i \in 1..15 |-> <<"tick">>]
  \o << <<"write", ADDR_SFX_PRIORITY, 255>>, <<"write", ADDR_CUR_SFX_ID, sfx_id>> >>

IsPrefix(p, q) == Len(p) <= Len(q) /\ SubSeq(q, 1, Len(p)) = p

\* C10: for every row that is not skipped the machine operations up to the
\* first collection tick are, in this order and with nothing else: pause
\* flag := 1, the quiesce writes, current effect := 0x80, priority := 0,
\* 15 ticks, priority := 0xFF, current effect := id; no collection tick comes
\* before the id write, and the accumulator holds no more frames than were
\* sampled after it.
C10_TriggerSequence ==
  /\ pc \in {"collect", "tail", "post"} =>
       /\ ops = ExpectedOps(Catalog[idx].id)
       /\ all_samples <= ticks
  /\ pc \in {"reset", "clear", "settle", "trigger"} =>
       /\ IsPrefix(ops, ExpectedOps(Catalog[idx].id))
       /\ Len(ops) < Len(ExpectedOps(Catalog[idx].id))
       /\ ticks = 0
  /\ pc = "collect" /\ n = 0 => ticks = 0 /\ all_samples = 0

\* the second row has sampled its first frame after its trigger
C10_Witness ==
  pc = "collect" /\ idx = 2 /\ ticks = 1 /\ all_samples = 1 /\ ~skip_unused

\* C11 as stated: in the collect phase the early exit is taken on a tick
\* exactly when that tick comes after tick 10 and the current-effect cell
\* reads 0x80 after it.
C11_ChecksAfterTick10 ==
  [][ pc = "collect" =>
        ((pc' = "tail") <=> (ticks' > 10 /\ mem'[ADDR_CUR_SFX_ID] = 128)) ]_allvars

\* C11 amended: the early exit is taken on a tick exactly when that tick
\* comes after tick 11 (loop index above 10) and the current-effect cell
\* reads 0x80 after it, so never on ticks 1 to 11; the tail capture then
\* advances and samples exactly 15 more ticks and collection stops.
C11_ChecksAfterTick11 ==
  [][ /\ pc = "collect" =>
           /\ ticks' = ticks + 1
           /\ (pc' = "tail") <=> (ticks' > 11 /\ mem'[ADDR_CUR_SFX_ID] = 128)
           /\ pc' = "tail" => n' = 0
      /\ pc = "tail" =>
           /\ ticks' = ticks + 1
           /\ all_samples' \in {all_samples, all_samples + 1}
           /\ IF n < 14 THEN pc' = "tail" /\ n' = n + 1 ELSE pc' = "post"
    ]_allvars

\* the first row's collection ended after 12 + 15 ticks: the early exit was
\* taken at tick 12
C11_Witness ==
  pc = "post" /\ idx = 1 /\ ticks = 27 /\ mem[ADDR_CUR_SFX_ID] = 128

\* C12: the collect phase of a row, tail capture included, advances the
\* machine at most estimated_duration_frames + 30 ticks and appends at most
\* that many frames to the accumulator.
C12_WindowBound ==
  pc \in {"collect", "tail", "post"} =>
    /\ ticks <= Catalog[idx].est + 30
    /\ all_samples <= Catalog[idx].est + 30

(* ------------------------------------------------------------------ *)
(* Properties of trim_silence (specification SpecTrim)                 *)
(* ------------------------------------------------------------------ *)

\* C7 as stated: trim_silence never returns a buffer with fewer frames than
\* min_samples, whatever the input.
C7_NeverShorterThanMin ==
  trim_calls >= 1 => trimmed.len >= min_samples

\* C7 amended: trim_silence never returns a buffer with fewer frames than the
\* smaller of min_samples and the length of its input.
C7_NeverShorterThanMinOrInput ==
  trim_calls >= 1 =>
    /\ trimmed.len >= (IF samples.len < min_samples THEN samples.len ELSE min_samples)
    /\ samples.len >= min_samples => trimmed.len >= min_samples

\* the only loud frame lies at the end of a 1500-frame buffer: the window
\* would hold 101 frames and the 1000-frame prefix is returned instead
C7_Witness ==
  /\ trim_calls = 1
  /\ threshold = 2 /\ min_samples = 1000
  /\ samples.len = 1500
  /\ DOMAIN samples.frames = {1499}
  /\ samples.frames[1499] = <<3, 0>>
  /\ trimmed.len = 1000
  /\ DOMAIN trimmed.frames = {}

\* C8: trimming an already trimmed buffer returns the same buffer.
C8_TrimIdempotent ==
  trim_calls = 2 => retrimmed = trimmed

\* the window path cut frames on both sides, and trimming again changed nothing
C8_Witness ==
  /\ trim_calls = 2
  /\ threshold = 2 /\ min_samples = 1000
  /\ samples.len = 12200
  /\ DOMAIN samples.frames = {850, 1100}
  /\ \A i \in {850, 1100} : samples.frames[i] = <<0, -3>>
  /\ trimmed.len = 12125 - 750
  /\ DOMAIN trimmed.frames = {100, 350}
  /\ retrimmed = trimmed

\* the absolute value of a sample, and the frames of a buffer whose peak
\* absolute amplitude exceeds the threshold
AbsVal(x) == IF x < 0 THEN -x ELSE x
LoudFrames(b, thr) ==
  {i \in DOMAIN b.frames : Max(AbsVal(b.frames[i][1]), AbsVal(b.frames[i][2])) > thr}

\* the offsets at which r can lie in b as a slice holding a non-zero frame
SliceOffsets(b, r) ==
  {s \in {k - j : k \in DOMAIN b.frames, j \in DOMAIN r.frames} :
     s >= 0 /\ s + r.len <= b.len /\ r = Slice(b, s, s + r.len)}

\* C13: for an input with at least one frame whose peak absolute amplitude
\* exceeds the threshold, the result of trim_silence is a contiguous slice
\* of the input that holds every such frame, from the first to the last.
C13_KeepsEveryLoudFrame ==
  trim_calls >= 1 /\ LoudFrames(samples, threshold) # {} =>
    \E s \in SliceOffsets(samples, trimmed) :
      \A i \in LoudFrames(samples, threshold) : s <= i /\ i < s + trimmed.len

(* ------------------------------------------------------------------ *)
(* Properties of reset_sound_channels (specification SpecQuiesce)      *)
(* ------------------------------------------------------------------ *)

\* the registers the claim lists
QuiescedRegs ==
  { ADDR_NR10, ADDR_NR11, ADDR_NR12, ADDR_NR14, ADDR_NR21, ADDR_NR22,
    ADDR_NR24, ADDR_NR30, ADDR_NR42, ADDR_NR44, ADDR_NR50, ADDR_NR51 }

\* C9: applying reset_sound_channels twice in succession leaves every sound
\* register as one application does, and no register outside the twelve
\* listed ones is changed by it.
C9_QuiesceIdempotent ==
  /\ resets = 2 => regs = regs_once
  /\ resets >= 1 =>
       \A a \in SoundRegs \ QuiescedRegs :
         regs[a] = regs_before[a] /\ regs_once[a] = regs_before[a]

\* two applications on registers the game had set: the first changed the
\* restart bit of channel 1 and left NR52 alone, the second changed nothing
C9_Witness ==
  /\ resets = 2
  /\ regs_before[ADDR_NR14] = 0
  /\ regs_before[ADDR_NR52] = 255
  /\ regs_before[ADDR_NR12] = 255
  /\ regs[ADDR_NR14] = 128
  /\ regs[ADDR_NR12] = 0
  /\ regs[ADDR_NR52] = 255

====
